---- MODULE Spec2Model ----
(***************************************************************************)
(* withResolvers: a single-settlement, multi-waiter deferred value.        *)
(*                                                                         *)
(* One broadcaster owns `settlement` and the `subscribers` set.  Each      *)
(* invocation of `operation` creates a fresh resolver; the resolvers are   *)
(* numbered 1..MaxWaiters.  The scheduler is single-threaded: an           *)
(* invocation runs to its suspend() in one step, a cancellation runs the   *)
(* finally block in one step.  The settling call notifies its subscribers  *)
(* one after the other, and a notified waiter's continuation runs inside   *)
(* notify(): between two iterations of the loop it may invoke the          *)
(* operation, halt another waiter, or call resolve/reject (re-entrancy).   *)
(*                                                                         *)
(* PureSpec applies the helpers of utils/basic.ts (isResultDelphi,         *)
(* toFxResult, toResult, cata) to JavaScript values drawn from Inputs.     *)
(***************************************************************************)
EXTENDS Integers, Sequences, FiniteSets, TLC

\* ------------------------------------------------------------- bounds
MaxWaiters == 3
MaxCalls == 3

Waiters == 1 .. MaxWaiters

\* Payloads of resolve(value).
Values == {1, 2}

\* JavaScript null / undefined passed where an Error is expected.
AbsentErrors == {"null", "undefined"}

\* Payloads of reject(error): a real Error object, or an absent one.
Errors == {"Error(x)"} \cup AbsentErrors

\* new Error("unknown error")
UnknownError == "Error(unknown error)"

VARIABLES
    settlement,   \* <<>> while undefined, else <<result>>
    subscribers,  \* the Set of resolvers, in insertion order
    settleRef,    \* which function the variable `settle` holds
    st,           \* st[w]: where invocation w of the operation stands
    observed,     \* observed[w]: the continuation calls made on resolver w
    pc,           \* "idle", or "loop" while the for-of of a settling call runs
    added,        \* added[w]: times w was inserted into subscribers
    removed,      \* removed[w]: times a delete actually removed w
    atStart,      \* the subscribers when the settling call started
    firstCall,    \* <<>>, else <<the first resolve/reject call>>
    nCalls,       \* number of resolve/reject calls made so far
    last,         \* the operation performed by the last step
    arg,          \* the argument handed to a helper of utils/basic.ts
    ret,          \* what the helper applied last returned (or threw)
    fn            \* the helper applied last

\* The broadcaster's state.
bvars == <<settlement, subscribers, settleRef, st, observed, pc,
           added, removed, atStart, firstCall, nCalls, last>>

\* The state of a call of a helper of utils/basic.ts.
pvars == <<arg, ret, fn>>

vars == <<bvars, pvars>>

\* ------------------------------------------------------------- helpers
Range(s) == {s[i] : i \in 1 .. Len(s)}

\* Set.prototype.has
SetHas(s, x) == x \in Range(s)

\* Set.prototype.add: appends unless already present.
SetAdd(s, x) == IF SetHas(s, x) THEN s ELSE Append(s, x)

\* Mutant of SetDelete: the whole set is cleared.
SetDeleteClears(s, x) == <<>>

\* Set.prototype.delete: removes the entry if present, keeps the order.
SetDelete(s, x) == SelectSeq(s, LAMBDA y : y # x)

\* 1 when a delete took x out of the set, else 0.
Removed(before, after, x) ==
    IF SetHas(before, x) /\ ~SetHas(after, x) THEN 1 ELSE 0

\* effection's Ok(value) and Err(error)
Ok(value) == [ok |-> TRUE, value |-> value]
Err(error) == [ok |-> FALSE, error |-> error]

\* Mutant of notify: the failure arm always takes the default branch.
notifyAlwaysUnknown(result, resolver) ==
    IF result.ok
    THEN [observed EXCEPT ![resolver] =
              Append(@, [cont |-> "resolve", value |-> result.value])]
    ELSE [observed EXCEPT ![resolver] =
              Append(@, [cont |-> "reject", error |-> UnknownError])]

\* notify(result, resolver): the continuation call it makes on the resolver,
\* appended to what the resolver has received so far.
notify(result, resolver) ==
    IF result.ok
    THEN [observed EXCEPT ![resolver] =
              Append(@, [cont |-> "resolve", value |-> result.value])]
    ELSE IF "error" \in DOMAIN result
         THEN [observed EXCEPT ![resolver] =
                   Append(@, [cont |-> "reject", error |-> result.error])]
         ELSE [observed EXCEPT ![resolver] =
                   Append(@, [cont |-> "reject", error |-> UnknownError])]

\* ------------------------------------------------------------- Init
\* No helper of utils/basic.ts is being called.
NoCall ==
    /\ arg = [kind |-> "none"]
    /\ ret = [kind |-> "none"]
    /\ fn = "none"

\* The broadcaster as withResolvers() returns it.
Created ==
    /\ settlement = <<>>
    /\ subscribers = <<>>
    /\ settleRef = "first"
    /\ st = [w \in Waiters |-> "Unregistered"]
    /\ observed = [w \in Waiters |-> <<>>]
    /\ pc = "idle"
    /\ added = [w \in Waiters |-> 0]
    /\ removed = [w \in Waiters |-> 0]
    /\ atStart = {}
    /\ firstCall = <<>>
    /\ nCalls = 0
    /\ last = [op |-> "init"]

Init == Created /\ NoCall

\* Mutant of operation: the `if (settlement)` branch is missing, so every
\* invocation registers and suspends.
operationAlwaysSuspend(resolver) ==
    /\ st[resolver] = "Unregistered"
    /\ subscribers' = SetAdd(subscribers, resolver)
    /\ added' = [added EXCEPT ![resolver] =
                     @ + Removed(subscribers', subscribers, resolver)]
    /\ st' = [st EXCEPT ![resolver] = "Pending"]
    /\ last' = [op |-> "operation", w |-> resolver]
    /\ UNCHANGED <<observed, settlement, settleRef, pc, removed, atStart,
                   firstCall, nCalls>>
    /\ UNCHANGED pvars

\* ------------------------------------------------------------- operation
\* One invocation of the operation, up to its suspend() (or to its end when
\* the broadcaster is settled).
operation(resolver) ==
    /\ st[resolver] = "Unregistered"
    /\ IF settlement # <<>>
       THEN /\ observed' = notify(settlement[1], resolver)
            /\ st' = [st EXCEPT ![resolver] = "Resumed"]
            /\ UNCHANGED <<subscribers, added>>
       ELSE /\ subscribers' = SetAdd(subscribers, resolver)
            /\ added' = [added EXCEPT ![resolver] =
                             @ + Removed(subscribers', subscribers, resolver)]
            /\ st' = [st EXCEPT ![resolver] = "Pending"]
            /\ UNCHANGED observed
    /\ last' = [op |-> "operation", w |-> resolver]
    /\ UNCHANGED <<settlement, settleRef, pc, removed, atStart, firstCall, nCalls>>
    /\ UNCHANGED pvars

\* Mutant of halt: the finally block is missing, the entry stays registered.
haltNoCleanup(resolver) ==
    /\ st[resolver] = "Pending"
    /\ st' = [st EXCEPT ![resolver] = "Cancelled"]
    /\ last' = [op |-> "halt", w |-> resolver]
    /\ UNCHANGED <<subscribers, removed, settlement, settleRef, observed, pc,
                   added, atStart, firstCall, nCalls>>
    /\ UNCHANGED pvars

\* The calling context of a suspended invocation is cancelled: suspend()
\* is torn down and the finally block runs.
halt(resolver) ==
    /\ st[resolver] = "Pending"
    /\ subscribers' = SetDelete(subscribers, resolver)
    /\ removed' = [removed EXCEPT ![resolver] =
                       @ + Removed(subscribers, subscribers', resolver)]
    /\ st' = [st EXCEPT ![resolver] = "Cancelled"]
    /\ last' = [op |-> "halt", w |-> resolver]
    /\ UNCHANGED <<settlement, settleRef, observed, pc, added, atStart,
                   firstCall, nCalls>>
    /\ UNCHANGED pvars

\* Mutant of forOf: the loop returns after its first iteration.
forOfOnlyFirst(result) ==
    IF subscribers = <<>>
    THEN /\ pc' = "idle"
         /\ UNCHANGED <<subscribers, observed, st, removed>>
    ELSE LET subscriber == Head(subscribers)
         IN  /\ subscribers' = SetDelete(subscribers, subscriber)
             /\ removed' = [removed EXCEPT ![subscriber] =
                                @ + Removed(subscribers, subscribers', subscriber)]
             /\ observed' = notify(result, subscriber)
             /\ st' = [st EXCEPT ![subscriber] = "Resumed"]
             /\ pc' = "idle"

\* Mutant of forOf: nothing deletes the entry that is notified.
forOfNoDelete(result) ==
    IF subscribers = <<>>
    THEN /\ pc' = "idle"
         /\ UNCHANGED <<subscribers, observed, st, removed>>
    ELSE LET subscriber == Head(subscribers)
         IN  /\ observed' = notify(result, subscriber)
             /\ st' = [st EXCEPT ![subscriber] = "Resumed"]
             /\ pc' = "loop"
             /\ UNCHANGED <<subscribers, removed>>

\* Mutant of forOf: the loop iterates a snapshot of the registry taken when
\* the settling call started, so an entry deleted meanwhile is still visited.
forOfSnapshot(result) ==
    LET snapshot == IF pc = "loop" THEN atStart ELSE Range(subscribers)
        left == {w \in snapshot : observed[w] = <<>>}
    IN  IF left = {}
        THEN /\ pc' = "idle"
             /\ UNCHANGED <<subscribers, observed, st, removed>>
        ELSE LET subscriber == CHOOSE w \in left : \A u \in left : w <= u
             IN  /\ subscribers' = SetDelete(subscribers, subscriber)
                 /\ removed' = [removed EXCEPT ![subscriber] =
                                    @ + Removed(subscribers, subscribers', subscriber)]
                 /\ observed' = notify(result, subscriber)
                 /\ st' = [st EXCEPT ![subscriber] = "Resumed"]
                 /\ pc' = "loop"

\* ------------------------------------------------------------- settle
\* One iteration of `for (const subscriber of subscribers)`, if there is a
\* next entry: the iterator yields the first live entry (every entry it
\* has already visited was deleted), the body deletes it and notifies it;
\* the notified invocation completes, and its finally block deletes the
\* entry again (a no-op).  Without a next entry the loop, and the settling
\* call, return.
forOf(result) ==
    IF subscribers = <<>>
    THEN /\ pc' = "idle"
         /\ UNCHANGED <<subscribers, observed, st, removed>>
    ELSE LET subscriber == Head(subscribers)
             afterDelete == SetDelete(subscribers, subscriber)
         IN  /\ subscribers' = SetDelete(afterDelete, subscriber)
             /\ removed' = [removed EXCEPT ![subscriber] =
                                @ + Removed(subscribers, afterDelete, subscriber)
                                  + Removed(afterDelete, subscribers', subscriber)]
             /\ observed' = notify(result, subscriber)
             /\ st' = [st EXCEPT ![subscriber] = "Resumed"]
             /\ pc' = "loop"

\* The function `settle` holds at first (lines 26-35), entered with result.
settleFirst(result) ==
    /\ IF settlement = <<>>
       THEN /\ settlement' = <<result>>
            /\ settleRef' = "noop"
            /\ forOf(result)
       ELSE /\ UNCHANGED <<settlement, settleRef>>
            /\ forOf(settlement[1])
    /\ atStart' = Range(subscribers)

\* The function assigned by `settle = () => {}`.
settleNoop ==
    UNCHANGED <<settlement, settleRef, subscribers, observed, st, removed,
                pc, atStart>>

\* Mutant of settle: no `if (!settlement)` guard and no reassignment, every
\* call records its result.
settleOverwrite(result) ==
    /\ settlement' = <<result>>
    /\ settleRef' = "noop"
    /\ forOf(result)
    /\ atStart' = Range(subscribers)

\* Mutant of settle: `settle = () => {}` is missing, every call runs the
\* guarded body again.
settleNotReassigned(result) ==
    settleFirst(result)

\* Mutant of settle: a call on a settled broadcaster is refused (it raises
\* instead of returning).
settleRefusesSecond(result) ==
    /\ settleRef = "first"
    /\ settleFirst(result)

\* Mutant of settle: the loop starts notifying before the settlement is
\* recorded.
settleNotifiesFirst(result) ==
    IF settleRef = "first"
    THEN /\ forOf(result)
         /\ settlement' = IF subscribers = <<>> THEN <<result>> ELSE settlement
         /\ settleRef' = IF subscribers = <<>> THEN "noop" ELSE settleRef
         /\ atStart' = Range(subscribers)
    ELSE settleNoop

settle(result) ==
    IF settleRef = "first" THEN settleFirst(result) ELSE settleNoop

resolve(value) ==
    /\ nCalls < MaxCalls
    /\ settle(Ok(value))
    /\ nCalls' = nCalls + 1
    /\ firstCall' = IF firstCall = <<>>
                    THEN <<[op |-> "resolve", value |-> value]>>
                    ELSE firstCall
    /\ last' = [op |-> "resolve", value |-> value]
    /\ UNCHANGED <<added, pvars>>

reject(error) ==
    /\ nCalls < MaxCalls
    /\ settle(Err(error))
    /\ nCalls' = nCalls + 1
    /\ firstCall' = IF firstCall = <<>>
                    THEN <<[op |-> "reject", error |-> error]>>
                    ELSE firstCall
    /\ last' = [op |-> "reject", error |-> error]
    /\ UNCHANGED <<added, pvars>>

\* The settling call's loop goes on after notify() has returned.
forOfNext ==
    /\ pc = "loop"
    /\ forOf(settlement[1])
    /\ last' = [op |-> "forOf"]
    /\ UNCHANGED <<settlement, settleRef, added, atStart, firstCall, nCalls>>
    /\ UNCHANGED pvars

\* ------------------------------------------------------------- Next
Next ==
    \/ \E w \in Waiters : operation(w)
    \/ \E w \in Waiters : halt(w)
    \/ \E v \in Values : resolve(v)
    \/ \E e \in Errors : reject(e)
    \/ forOfNext

Spec == Init /\ [][Next]_vars

\* The loop of a settling call is synchronous code: once entered it runs
\* until the registry is drained.  Invocations, cancellations and
\* resolve/reject calls are the callers' and carry no fairness.
FairSpec == Init /\ [][Next]_vars /\ WF_vars(forOfNext)

\* ------------------------------------------------------------- utils/basic.ts
\* JavaScript values, as far as the helpers look at them: null, undefined,
\* primitives, and objects given by their own properties.  Property values
\* are written as strings: "true", "false", "undefined", ...
Keys == {"ok", "value", "error"}

ValuesOf(k) ==
    IF k = "ok" THEN {"true", "false", "1", "undefined"}
    ELSE IF k = "value" THEN {"42", "undefined"}
    ELSE {"boom", "undefined"}

Objects ==
    UNION {{[kind |-> "object", props |-> f] :
                f \in {g \in [K -> {"true", "false", "1", "undefined", "42", "boom"}] :
                           \A k \in K : g[k] \in ValuesOf(k)}} :
           K \in SUBSET Keys}

Primitives == {[kind |-> "primitive", v |-> p] : p \in {"5", "text", "true"}}

Inputs == {[kind |-> "null"], [kind |-> "undefined"]} \cup Primitives \cup Objects

Return(v) == [kind |-> "return", v |-> v]
Throw(e) == [kind |-> "throw", error |-> e]
Bool(b) == IF b THEN "true" ELSE "false"

\* typeof x
TypeOf(x) ==
    IF x.kind \in {"null", "object"} THEN "object"
    ELSE IF x.kind = "undefined" THEN "undefined"
    ELSE "primitive"

\* `k in x`, for an object x
In(k, x) == k \in DOMAIN x.props

\* x.k, for x neither null nor undefined
Get(x, k) ==
    IF x.kind = "object" /\ k \in DOMAIN x.props THEN x.props[k] ELSE "undefined"

\* isResultDelphi(arg): the `||` evaluates its right operand when the left
\* one is false; there `arg.ok` throws on null and undefined, and `in`
\* throws on a primitive.
isResultDelphi(x) ==
    IF /\ TypeOf(x) = "object"
       /\ x.kind # "null"
       /\ In("ok", x)
       /\ Get(x, "ok") = "true"
       /\ In("value", x)
    THEN Return("true")
    ELSE IF x.kind \in {"null", "undefined"}
         THEN Throw("TypeError")
         ELSE IF Get(x, "ok") # "false"
              THEN Return("false")
              ELSE IF x.kind # "object"
                   THEN Throw("TypeError")
                   ELSE Return(Bool(In("error", x)))

\* isOk(result)
isOk(result) == Get(result, "ok") = "true"

\* The objects the type Result<T> admits: the arm's key is present.
IsResult(x) ==
    /\ x.kind = "object"
    /\ \/ In("ok", x) /\ x.props["ok"] = "true" /\ In("value", x)
       \/ In("ok", x) /\ x.props["ok"] = "false" /\ In("error", x)

\* toFxResult(result): { ...result, cata: cataFunction }
toFxResult(result) ==
    [kind |-> "object",
     props |-> [k \in DOMAIN result.props \cup {"cata"} |->
                    IF k = "cata" THEN "cataFunction" ELSE result.props[k]]]

\* Mutant of toResult: the object is returned as it is.
toResultKeepsCata(result) == result

\* toResult(result): const { cata, ...original } = result
toResult(result) ==
    [kind |-> "object",
     props |-> [k \in DOMAIN result.props \ {"cata"} |-> result.props[k]]]

\* cataFunction(patterns), closed over the result given to toFxResult: the
\* pattern it runs and the argument it hands to it.
cataFunction(result) ==
    IF isOk(result)
    THEN [kind |-> "ran", pattern |-> "Ok", with |-> result]
    ELSE [kind |-> "ran", pattern |-> "Err", with |-> result]

PureInit ==
    /\ Created
    /\ arg \in Inputs
    /\ ret = [kind |-> "none"]
    /\ fn = "input"

CallIsResultDelphi ==
    /\ fn = "input"
    /\ ret' = isResultDelphi(arg)
    /\ fn' = "isResultDelphi"
    /\ UNCHANGED <<arg, bvars>>

CallToFxResult ==
    /\ fn = "input"
    /\ IsResult(arg)
    /\ ret' = toFxResult(arg)
    /\ fn' = "toFxResult"
    /\ UNCHANGED <<arg, bvars>>

CallToResult ==
    /\ fn = "toFxResult"
    /\ ret' = toResult(ret)
    /\ fn' = "toResult"
    /\ UNCHANGED <<arg, bvars>>

CallCata ==
    /\ fn = "toFxResult"
    /\ ret' = cataFunction(arg)
    /\ fn' = "cata"
    /\ UNCHANGED <<arg, bvars>>

PureNext ==
    \/ CallIsResultDelphi
    \/ CallToFxResult
    \/ CallToResult
    \/ CallCata

PureSpec == PureInit /\ [][PureNext]_vars

\* ------------------------------------------------------------- claims
Settled == settlement # <<>>

\* The result the first resolve/reject call settles with.
FirstOutcome ==
    IF firstCall[1].op = "resolve"
    THEN [ok |-> TRUE, value |-> firstCall[1].value]
    ELSE [ok |-> FALSE, error |-> firstCall[1].error]

\* What a waiter is handed when the first call's outcome is delivered as is.
FirstDelivery ==
    IF firstCall[1].op = "resolve"
    THEN [cont |-> "resolve", value |-> firstCall[1].value]
    ELSE [cont |-> "reject", error |-> firstCall[1].error]

\* C1: the settlement is empty until the first resolve/reject call, is the
\* outcome of that first call afterwards, and no later step changes it.
C1_WriteOnce ==
    /\ [](nCalls = 0 => settlement = <<>>)
    /\ [](nCalls > 0 => settlement = <<FirstOutcome>>)
    /\ [][Settled => settlement' = settlement]_vars

\* C1 witness: a rejection was followed by a resolve call.
C1_Witness ==
    /\ nCalls >= 2
    /\ firstCall[1].op = "reject"
    /\ last.op = "resolve"
    /\ settlement = <<Err(firstCall[1].error)>>

\* C2: every waiter that completed observed the outcome of the first
\* resolve/reject call, so no two waiters observed different outcomes.
C2_Agreement ==
    \A w \in Waiters :
        observed[w] # <<>> =>
            /\ firstCall # <<>>
            /\ \A i \in 1 .. Len(observed[w]) : observed[w][i] = FirstDelivery

\* C2 witness: one waiter registered before the settling call and one invoked
\* after it have both completed.
C2_Witness ==
    \E w1, w2 \in Waiters :
        /\ added[w1] = 1 /\ st[w1] = "Resumed"
        /\ added[w2] = 0 /\ st[w2] = "Resumed"
        /\ observed[w1] = observed[w2]
        /\ nCalls >= 2

\* What a waiter is handed when the cached settlement is delivered as is.
CachedDelivery ==
    IF settlement[1].ok
    THEN [cont |-> "resolve", value |-> settlement[1].value]
    ELSE [cont |-> "reject", error |-> settlement[1].error]

\* The settling call has returned.
Returned == Settled /\ pc = "idle"

\* C3 as stated: once the settling call has returned, every waiter that was
\* registered when it started has been notified by it with its outcome.
C3_NoLostWakeup_AsStated ==
    Returned =>
        \A w \in atStart :
            st[w] = "Resumed" /\ observed[w] = <<FirstDelivery>>

\* C3 amended: once the settling call has returned, every waiter that was
\* registered when it started has been notified by it with its outcome,
\* unless it was cancelled while the call was running, before its turn; and
\* no waiter is left pending.
C3_NoLostWakeup ==
    Returned =>
        /\ \A w \in atStart :
               \/ st[w] = "Resumed" /\ observed[w] = <<FirstDelivery>>
               \/ st[w] = "Cancelled" /\ observed[w] = <<>>
        /\ \A w \in Waiters : st[w] # "Pending"

\* C3 witness: a settling call that started with two registered waiters has
\* returned and both were notified.
C3_Witness ==
    /\ Returned
    /\ Cardinality(atStart) >= 2
    /\ \A w \in atStart : st[w] = "Resumed" /\ observed[w] = <<FirstDelivery>>

\* C4: an invocation made when the broadcaster is settled is notified in the
\* same step with the cached outcome, is not added to the registry and is
\* never Pending.
C4_SettledInvoke ==
    /\ [][\A w \in Waiters :
            (Settled /\ st[w] = "Unregistered" /\ st'[w] # "Unregistered") =>
                /\ st'[w] = "Resumed"
                /\ observed'[w] = <<CachedDelivery>>
                /\ ~SetHas(subscribers', w)
                /\ added'[w] = 0]_vars
    /\ [](\A w \in Waiters :
            added[w] = 0 => st[w] \in {"Unregistered", "Resumed"})

\* C4 witness: the last step was an invocation on a settled broadcaster.
C4_Witness ==
    /\ last.op = "operation"
    /\ Settled
    /\ st[last.w] = "Resumed"
    /\ added[last.w] = 0
    /\ observed[last.w] = <<CachedDelivery>>

\* C5: cancelling a pending waiter removes its entry from the registry; the
\* steps of a settling call leave a cancelled waiter cancelled and
\* unnotified, and once the call has returned no waiter is still pending.
C5_CancellationCleanup ==
    /\ [][\A w \in Waiters :
            (st[w] = "Pending" /\ st'[w] = "Cancelled") =>
                SetHas(subscribers, w) /\ ~SetHas(subscribers', w)]_vars
    /\ [][\A w \in Waiters :
            st[w] = "Cancelled" =>
                /\ st'[w] = "Cancelled"
                /\ observed'[w] = <<>>
                /\ ~SetHas(subscribers', w)]_vars
    /\ [](Returned =>
            \A w \in Waiters :
                (added[w] = 1 /\ st[w] # "Cancelled") =>
                    st[w] = "Resumed" /\ observed[w] = <<CachedDelivery>>)

\* C5 witness: a waiter was cancelled before the settling call, which then
\* notified another waiter and returned.
C5_Witness ==
    /\ Returned
    /\ firstCall[1].op = "reject"
    /\ \E w1, w2 \in Waiters :
        /\ st[w1] = "Cancelled" /\ w1 \notin atStart /\ observed[w1] = <<>>
        /\ st[w2] = "Resumed" /\ w2 \in atStart

\* C6: a resolve or reject call made when the broadcaster is settled changes
\* neither the settlement, nor the registry, nor any waiter's state or
\* observed outcome, and notifies nobody.
C6_SettledCallNoEffect ==
    [][(Settled /\ nCalls' = nCalls + 1) =>
           UNCHANGED <<settlement, subscribers, st, observed, pc, added,
                       removed, settleRef>>]_vars

\* C6 witness: resolve, a late invocation, then reject; also a reject made
\* from inside the notification loop of the settling call.
C6_Witness ==
    /\ Settled
    /\ nCalls >= 2
    /\ firstCall[1].op = "resolve"
    /\ last.op = "reject"
    /\ pc = "loop"
    /\ subscribers # <<>>
    /\ \E w \in Waiters : st[w] = "Resumed" /\ added[w] = 0

\* C7: a waiter's continuation is invoked at most once, exactly when it is
\* Resumed and never when it is Cancelled; Resumed and Cancelled are
\* terminal.
C7_ExactlyOnce ==
    /\ [](\A w \in Waiters :
            /\ Len(observed[w]) <= 1
            /\ st[w] = "Resumed" <=> Len(observed[w]) = 1
            /\ st[w] = "Cancelled" => observed[w] = <<>>)
    /\ [][\A w \in Waiters :
            st[w] \in {"Resumed", "Cancelled"} =>
                st'[w] = st[w] /\ observed'[w] = observed[w]]_vars

\* C7 witness: after the settling call and a further call, one waiter is
\* Resumed with one observation and another is Cancelled with none.
C7_Witness ==
    /\ Returned
    /\ nCalls >= 2
    /\ \E w1, w2 \in Waiters :
        /\ st[w1] = "Resumed" /\ Len(observed[w1]) = 1 /\ added[w1] = 1
        /\ st[w2] = "Cancelled" /\ observed[w2] = <<>>

\* C8: a waiter that registers is added once, its entry is removed exactly
\* once when its suspension ends (by notification or by cancellation), and
\* it is never added again.
C8_RemovedExactlyOnce ==
    /\ [](\A w \in Waiters :
            /\ added[w] <= 1
            /\ st[w] = "Pending" => added[w] = 1 /\ removed[w] = 0
            /\ (st[w] \in {"Resumed", "Cancelled"} /\ added[w] = 1) =>
                   removed[w] = 1
            /\ added[w] = 0 => removed[w] = 0)
    /\ [][\A w \in Waiters :
            removed[w] >= 1 => ~SetHas(subscribers', w) /\ added'[w] = added[w]]_vars

\* C8 witness: one registered waiter left by notification and another by
\* cancellation, each removed once.
C8_Witness ==
    \E w1, w2 \in Waiters :
        /\ st[w1] = "Resumed" /\ added[w1] = 1 /\ removed[w1] = 1
        /\ st[w2] = "Cancelled" /\ added[w2] = 1 /\ removed[w2] = 1

\* C9: a waiter is in the registry exactly when it is Pending, and the
\* registry holds no entry twice.
C9_RegistryIsPending ==
    /\ \A w \in Waiters : SetHas(subscribers, w) <=> st[w] = "Pending"
    /\ Len(subscribers) = Cardinality(Range(subscribers))

\* C9 witness: in the middle of the notification loop one waiter is still
\* registered, one has been notified and one was cancelled.
C9_Witness ==
    /\ pc = "loop"
    /\ \E w1, w2, w3 \in Waiters :
        /\ st[w1] = "Pending" /\ SetHas(subscribers, w1)
        /\ st[w2] = "Resumed" /\ ~SetHas(subscribers, w2)
        /\ st[w3] = "Cancelled" /\ ~SetHas(subscribers, w3)

\* C10: when reject was called with a null/undefined error, every waiter
\* that is notified receives the generic "unknown error", never the absent
\* error itself.
C10_AbsentErrorDefaulted ==
    (firstCall # <<>> /\ firstCall[1].op = "reject"
                      /\ firstCall[1].error \in AbsentErrors) =>
        \A w \in Waiters :
            \A i \in 1 .. Len(observed[w]) :
                observed[w][i] = [cont |-> "reject", error |-> UnknownError]

\* C11: resolve and reject can be called in every reachable state, settled
\* or not, also from inside a notification; a call on a settled broadcaster
\* and a call on an empty registry return in the same step; the loop of a
\* settling call can always go on, the registry never grows while it runs,
\* and every waiter a step of it touches is fully notified by that step.
C11_Total ==
    /\ [](nCalls < MaxCalls =>
            /\ \A v \in Values : ENABLED resolve(v)
            /\ \A e \in Errors : ENABLED reject(e))
    /\ [](pc = "loop" => ENABLED forOfNext)
    /\ [][(nCalls' = nCalls + 1 /\ (Settled \/ subscribers = <<>>)) =>
              pc' = pc]_vars
    /\ [][pc = "loop" => Len(subscribers') <= Len(subscribers)]_vars
    /\ [][\A w \in Waiters :
            observed'[w] # observed[w] =>
                /\ Len(observed'[w]) = Len(observed[w]) + 1
                /\ st'[w] = "Resumed"
                /\ ~SetHas(subscribers', w)]_vars

\* C11 witness: a resolve call was made from inside the notification loop
\* of a settling reject, while another waiter was still registered.
C11_Witness ==
    /\ pc = "loop"
    /\ subscribers # <<>>
    /\ firstCall[1].op = "reject"
    /\ last.op = "resolve"
    /\ nCalls = 2

Done(w) == st[w] \in {"Resumed", "Cancelled"}

\* C12 as stated: every invocation that is suspended eventually completes
\* with a value or an error, unless it is cancelled.
C12_Fates_AsStated ==
    \A w \in Waiters : (st[w] = "Pending") ~> Done(w)

\* C12 amended: a waiter that completes received a value or an error, once;
\* once a resolve/reject call has been made every suspended waiter
\* eventually completes or is cancelled, and none is suspended after the
\* settling call has returned; without any resolve/reject call a waiter that
\* is not cancelled stays suspended.
C12_Fates ==
    /\ [](\A w \in Waiters :
            st[w] = "Resumed" =>
                /\ Len(observed[w]) = 1
                /\ observed[w][1].cont \in {"resolve", "reject"})
    /\ [](\A w \in Waiters : (Returned => st[w] # "Pending"))
    /\ \A w \in Waiters : (Settled /\ st[w] = "Pending") ~> Done(w)

\* C12 witness: the settling call has notified one waiter and another one
\* is still suspended.
C12_Witness ==
    /\ Settled
    /\ pc = "loop"
    /\ last.op \in {"resolve", "reject"}
    /\ nCalls = 1
    /\ \E w1, w2 \in Waiters : st[w1] = "Pending" /\ st[w2] = "Resumed"

\* C13: a Pending waiter leaves Pending only by its own cancellation or by
\* being notified by the first resolve/reject call (in the step of the call
\* or in a later iteration of its loop); every other step, and in particular
\* every step while no resolve/reject call has been made, leaves it Pending
\* and registered.
C13_NoSpontaneousResume ==
    /\ [][\A w \in Waiters :
            (st[w] = "Pending" /\ st'[w] # "Pending") =>
                \/ /\ st'[w] = "Cancelled"
                   /\ last' = [op |-> "halt", w |-> w]
                   /\ observed'[w] = <<>>
                \/ /\ st'[w] = "Resumed"
                   /\ \/ last'.op \in {"resolve", "reject"} /\ nCalls = 0
                      \/ last'.op = "forOf" /\ pc = "loop"
                   /\ settlement' # <<>>
                   /\ w \in atStart']_vars
    /\ [][\A w \in Waiters :
            (st[w] = "Pending" /\ nCalls' = 0 /\ last'.op # "halt") =>
                st'[w] = "Pending" /\ SetHas(subscribers', w)]_vars

\* C13 witness: a waiter is still Pending and registered after another
\* waiter registered and was cancelled, no resolve/reject call being made.
C13_Witness ==
    /\ nCalls = 0
    /\ last.op = "halt"
    /\ \E w \in Waiters :
        /\ w # last.w
        /\ added[w] = 1
        /\ st[w] = "Pending"
        /\ SetHas(subscribers, w)

\* C14: an invocation made while unsettled adds one entry of its own and
\* touches no other waiter; cancelling a pending waiter removes that
\* waiter's entry only, leaves the settlement and every observed outcome as
\* they were, and leaves every other waiter's registration and state alone.
C14_IndependentSilentCancel ==
    /\ [](~Settled => Len(subscribers) = Cardinality({w \in Waiters : st[w] = "Pending"}))
    /\ [][\A w \in Waiters :
            (~Settled /\ st[w] = "Unregistered" /\ st'[w] # "Unregistered") =>
                /\ Len(subscribers') = Len(subscribers) + 1
                /\ Range(subscribers') = Range(subscribers) \cup {w}
                /\ \A u \in Waiters \ {w} : st'[u] = st[u]
                /\ observed' = observed]_vars
    /\ [][\A w \in Waiters :
            (st[w] = "Pending" /\ st'[w] = "Cancelled") =>
                /\ settlement' = settlement
                /\ firstCall' = firstCall
                /\ observed' = observed
                /\ Range(subscribers') = Range(subscribers) \ {w}
                /\ \A u \in Waiters \ {w} :
                       /\ st'[u] = st[u]
                       /\ added'[u] = added[u]
                       /\ removed'[u] = removed[u]]_vars

\* C14 witness: three invocations were pending, one was cancelled, the other
\* two are still registered and the broadcaster is unsettled.
C14_Witness ==
    /\ ~Settled
    /\ last.op = "halt"
    /\ st[last.w] = "Cancelled"
    /\ Len(subscribers) = 2
    /\ \A w \in Waiters \ {last.w} : st[w] = "Pending"

\* C15: once a settling call has returned the registry is empty, and every
\* later invoke, cancel, resolve or reject leaves it empty and the
\* broadcaster settled (a non-empty registry outside the notification loop
\* means the broadcaster is unsettled).
C15_SettledRegistryEmpty ==
    /\ [](Returned => subscribers = <<>>)
    /\ []((subscribers # <<>> /\ pc = "idle") => ~Settled)
    /\ [][Returned => (settlement' = settlement /\ pc' = "idle"
                                                /\ subscribers' = <<>>)]_vars

\* C15 witness: a settling call that notified a waiter has returned, and an
\* invocation was made afterwards.
C15_Witness ==
    /\ Returned
    /\ atStart # {}
    /\ subscribers = <<>>
    /\ last.op = "operation"
    /\ added[last.w] = 0

\* C16: whenever a waiter's continuation has been invoked the settlement is
\* set and is the outcome that was delivered; while the notification loop
\* runs the broadcaster is settled and `settle` is already the no-op, so an
\* invocation made from inside a notification is notified without being
\* registered and a resolve/reject made there leaves the first outcome.
C16_RecordedBeforeNotify ==
    /\ \A w \in Waiters :
           observed[w] # <<>> =>
               Settled /\ \A i \in 1 .. Len(observed[w]) :
                              observed[w][i] = CachedDelivery
    /\ pc = "loop" => Settled /\ settleRef = "noop"
    /\ (pc = "loop" /\ last.op = "operation") =>
           /\ st[last.w] = "Resumed"
           /\ added[last.w] = 0
           /\ ~SetHas(subscribers, last.w)
    /\ (pc = "loop" /\ last.op \in {"resolve", "reject"} /\ nCalls >= 2) =>
           settlement = <<FirstOutcome>>

\* C16 witness: inside the notification loop a notified waiter invoked the
\* operation again while another waiter was still registered.
C16_Witness ==
    /\ pc = "loop"
    /\ last.op = "operation"
    /\ st[last.w] = "Resumed"
    /\ subscribers # <<>>
    /\ \E w \in atStart : st[w] = "Resumed"

\* C17: every step of the notification loop notifies an entry that was
\* registered and Pending, never notified before, and has removed it from
\* the registry when the continuation runs; while the loop runs each waiter
\* registered at its start is still registered, or notified once, or was
\* cancelled and never notified; when the loop returns nobody is registered.
C17_LoopSafe ==
    /\ [][\A w \in Waiters :
            (observed'[w] # observed[w] /\ last'.op # "operation") =>
                /\ subscribers # <<>> /\ w = Head(subscribers)
                /\ st[w] = "Pending"
                /\ observed[w] = <<>>
                /\ Len(observed'[w]) = 1
                /\ ~SetHas(subscribers', w)
                /\ removed'[w] = 1
                /\ \A u \in Waiters \ {w} : observed'[u] = observed[u]]_vars
    /\ [](Settled =>
            \A w \in atStart :
                \/ st[w] = "Pending" /\ SetHas(subscribers, w) /\ observed[w] = <<>>
                                     /\ pc = "loop"
                \/ st[w] = "Resumed" /\ Len(observed[w]) = 1
                \/ st[w] = "Cancelled" /\ observed[w] = <<>>)
    /\ [](Settled => Range(subscribers) \subseteq atStart)

\* C17 witness: three waiters were registered when the loop started; the
\* second was cancelled during the loop before its turn and was skipped, the
\* first and the third were notified, and the loop has returned.
C17_Witness ==
    /\ Returned
    /\ Cardinality(atStart) = 3
    /\ \E w1, w2, w3 \in atStart :
        /\ st[w1] = "Resumed" /\ st[w3] = "Resumed"
        /\ w1 # w3
        /\ st[w2] = "Cancelled" /\ observed[w2] = <<>>

\* C18: isResultDelphi returns a boolean for every input, never raises, and
\* returns true exactly for a non-null object with ok === true and a value
\* key, or with ok === false and an error key.
C18_TotalPredicate ==
    fn = "isResultDelphi" =>
        ret = Return(Bool(
                  /\ arg.kind = "object"
                  /\ \/ "ok" \in DOMAIN arg.props /\ arg.props["ok"] = "true"
                                                  /\ "value" \in DOMAIN arg.props
                     \/ "ok" \in DOMAIN arg.props /\ arg.props["ok"] = "false"
                                                  /\ "error" \in DOMAIN arg.props))

\* C19: toResult(toFxResult(r)) has exactly the fields and values of r,
\* toFxResult(r) is r plus the cata function, and cata runs the Ok pattern on
\* r when r.ok is true and the Err pattern on r otherwise.
C19_RoundTrip ==
    /\ fn = "toFxResult" =>
           /\ DOMAIN ret.props = DOMAIN arg.props \cup {"cata"}
           /\ \A k \in DOMAIN arg.props : ret.props[k] = arg.props[k]
    /\ fn = "toResult" => ret = arg
    /\ fn = "cata" =>
           /\ ret.with = arg
           /\ ret.pattern = "Ok" <=> arg.props["ok"] = "true"
           /\ ret.pattern = "Err" <=> arg.props["ok"] = "false"

\* C19 witness: a failure result went through toFxResult and toResult.
C19_Witness ==
    /\ fn = "toResult"
    /\ arg.props["ok"] = "false"
    /\ DOMAIN arg.props = {"ok", "error"}
    /\ ret = arg

====
